---- MODULE Spec2Model ----
(***************************************************************************)
(* paperless-backup: main.py.  A backup run validates the configuration,   *)
(* dumps the database, opens a client for the configured storage driver    *)
(* ("aws" or "minio"), ensures the bucket, uploads the dump and then       *)
(* uploads the document tree incrementally (incremental_upload).           *)
(*                                                                         *)
(* Times are counted in ticks, TicksPerSec ticks to the second, so that    *)
(* int(...) of a timestamp is a real truncation.  A path is a sequence of  *)
(* atoms: a separator ("/" or "\\") or a fragment of a name that holds no  *)
(* separator.                                                              *)
(***************************************************************************)
EXTENDS Integers, Sequences, FiniteSets

VARIABLES
    driver,         \* STORAGE_DRIVER
    caller,         \* who called incremental_upload: "main" or "direct"
    pc,             \* position of the run
    failStage,      \* the function whose exception reached main's except ("" = none)
    failKind,       \* what that exception reported
    bucketExists,   \* the configured bucket exists in the store
    bucket0,        \* ... and did when the run started
    ensureFault,    \* the backend failure ensure_bucket_exists met ("none", "head", "create")
    ensureReturned, \* ensure_bucket_exists has returned normally
    dbUploadCalls,  \* upload_file calls made for the database artifact
    docsExists,     \* os.path.exists(local_path)
    files,          \* relative paths of the regular files under local_path
    mtime,          \* os.path.getmtime of each file, in ticks
    remote,         \* the bucket: object key -> [exists, last_modified (ticks)]
    remote0,        \* the bucket as it was when incremental_upload was entered
    clock,          \* the store's clock, in whole seconds
    syncState,      \* "not_called", "noop", "walking", "summarised", "raised"
    todo,           \* files os.walk has not yielded yet
    upload_count,
    skip_count,
    error_count,
    statCalls,      \* per file: object_exists_and_modified calls
    upCalls,        \* per file: upload_file calls
    lookupKind,     \* per file: "none", "present", "not_found", "check_failed"
    upResult,       \* per file: "none", "ok", "raise" (how upload_file ended)
    outcome,        \* per file: "pending", "uploaded", "skipped", "errored"
    run,            \* number of the current incremental_upload call
    prevErrors,     \* error_count at the end of the previous call
    host,           \* path convention of the host: "posix" or "nt"
    relA, relB,     \* two relative paths (key derivation)
    keyA, keyB      \* their derived keys

vars == <<driver, caller, pc, failStage, failKind, bucketExists, bucket0,
          ensureFault, ensureReturned, dbUploadCalls, docsExists, files, mtime,
          remote, remote0, clock, syncState, todo, upload_count, skip_count,
          error_count, statCalls, upCalls, lookupKind, upResult, outcome,
          run, prevErrors, host, relA, relB, keyA, keyB>>

mainVars == <<bucketExists, bucket0, ensureFault, ensureReturned, dbUploadCalls>>
walkVars == <<todo, upload_count, skip_count, error_count, statCalls, upCalls,
              lookupKind, upResult, outcome>>
fsVars   == <<docsExists, files, mtime>>
runVars  == <<run, prevErrors>>
keyVars  == <<host, relA, relB, keyA, keyB>>

----------------------------------------------------------------------------
(* Bounds *)

\* ticks to the second: the sub-second resolution of os.path.getmtime
TicksPerSec == 2
\* the latest modification time, in ticks
MaxTick == 3
\* calls of incremental_upload made in succession
MaxRuns == 2
\* atoms in a relative path (key derivation)
MaxPathLen == 3

Drivers == {"aws", "minio"}
Hosts   == {"posix", "nt"}
Faults  == {"none", "denied", "error"}

Ticks == 0 .. MaxTick
\* the whole seconds of the store's clock
MaxSec == MaxTick \div TicksPerSec
Secs == 0 .. MaxSec

----------------------------------------------------------------------------
(* Key derivation: incremental_upload, lines 317-319 *)

\* s3_prefix="media/"
s3_prefix == <<"media", "/">>

Sep(h) == IF h = "posix" THEN "/" ELSE "\\"

\* the characters os.path.join takes for "ends with a separator"
JoinSeps(h) == IF h = "posix" THEN {"/"} ELSE {"/", "\\", ":"}

\* os.path.join(a, b) for a relative b
PathJoin(h, a, b) ==
    IF b # <<>> /\ b[1] \in (IF h = "posix" THEN {"/"} ELSE {"/", "\\"})
    THEN b
    ELSE IF a = <<>> \/ a[Len(a)] \in JoinSeps(h)
         THEN a \o b
         ELSE a \o <<Sep(h)>> \o b

\* str.replace("\\", "/")
ReplaceBackslash(s) == [i \in DOMAIN s |-> IF s[i] = "\\" THEN "/" ELSE s[i]]

\* s3_key = os.path.join(s3_prefix, relative_path).replace("\\", "/")
S3Key(h, rel) == ReplaceBackslash(PathJoin(h, s3_prefix, rel))

\* what a file name may hold on each host besides letters: a backslash is an
\* ordinary character of a POSIX file name and a separator on nt
NameAtoms(h) == IF h = "posix" THEN {"a", "b", "\\"} ELSE {"a", "b"}

PathAtoms(h) == NameAtoms(h) \cup {Sep(h)}

RECURSIVE SeqsUpTo(_, _)
SeqsUpTo(S, n) ==
    IF n = 0 THEN {<<>>}
    ELSE LET shorter == SeqsUpTo(S, n - 1)
         IN  shorter \cup {Append(s, x) : s \in shorter, x \in S}

\* what os.path.relpath(full_path, local_path) can return for a file under
\* local_path: components joined by the host's separator, none of them empty
RelPaths(h) ==
    {p \in SeqsUpTo(PathAtoms(h), MaxPathLen) :
        /\ p # <<>>
        /\ p[1] # Sep(h)
        /\ p[Len(p)] # Sep(h)
        /\ \A i \in 1 .. (Len(p) - 1) : ~(p[i] = Sep(h) /\ p[i + 1] = Sep(h))}

----------------------------------------------------------------------------
(* The document tree and the bucket *)

FileNames == {<<"a.txt">>, <<"b.txt">>, <<"c.txt">>}

KeyOf(f) == S3Key("posix", f)

Keys == {KeyOf(f) : f \in FileNames}

NoObject == [exists |-> FALSE, last_modified |-> 0]

Object(sec) == [exists |-> TRUE, last_modified |-> sec * TicksPerSec]


SyncFiles == {<<"a.txt">>, <<"b.txt">>}

----------------------------------------------------------------------------
(* The storage backend's answers *)

\* the error code of a missing object: ClientError '404' from head_object,
\* S3Error "NoSuchKey" from stat_object
NotFoundCode(drv) == IF drv = "aws" THEN "404" ELSE "NoSuchKey"

\* the answer to head_object / stat_object for an object of the bucket
StatCode(drv, obj, fault) ==
    IF fault = "denied" THEN (IF drv = "aws" THEN "403" ELSE "AccessDenied")
    ELSE IF fault = "error" THEN (IF drv = "aws" THEN "500" ELSE "InternalError")
    ELSE IF obj.exists THEN "200"
    ELSE NotFoundCode(drv)

\* the answer to head_bucket
HeadBucketCode(exists, fault) ==
    IF fault = "denied" THEN "403"
    ELSE IF fault = "error" THEN "500"
    ELSE IF exists THEN "200"
    ELSE "404"

----------------------------------------------------------------------------
(* object_exists_and_modified, lines 275-300 *)

\* int(timestamp) of a non-negative timestamp
int(t) == t \div TicksPerSec

\* variant: an equal whole second counts as newer
IsNewer_ge(local, remoteT) == int(local) >= int(remoteT)

\* local_mtime > remote_mtime, both truncated by int()
IsNewer(local, remoteT) == int(local) > int(remoteT)

\* variant: a missing object is answered False
InnerCheck_missing_false(drv, code, mtimeOK, local, remoteT) ==
    IF code = "200"
    THEN IF mtimeOK
         THEN (IF IsNewer(local, remoteT) THEN "True" ELSE "False")
         ELSE "raise"
    ELSE IF code = NotFoundCode(drv) THEN "False"
    ELSE "raise"

\* the inner try of each driver's branch: "True", "False", or "raise" when the
\* exception leaves the inner try (a re-raised backend error, or getmtime's)
InnerCheck(drv, code, mtimeOK, local, remoteT) ==
    IF drv = "aws"
    THEN IF code = "200"
         THEN IF mtimeOK
              THEN (IF IsNewer(local, remoteT) THEN "True" ELSE "False")
              ELSE "raise"
         ELSE IF code = "404" THEN "True"
         ELSE "raise"
    ELSE IF code = "200"
         THEN IF mtimeOK
              THEN (IF IsNewer(local, remoteT) THEN "True" ELSE "False")
              ELSE "raise"
         ELSE IF code = "NoSuchKey" THEN "True"
         ELSE "raise"

\* variant: a failed check is answered False
object_exists_and_modified_skip_on_error(drv, code, mtimeOK, local, remoteT) ==
    InnerCheck(drv, code, mtimeOK, local, remoteT) = "True"

\* the outer try: whatever leaves the inner one is logged and answered True
object_exists_and_modified(drv, code, mtimeOK, local, remoteT) ==
    LET r == InnerCheck(drv, code, mtimeOK, local, remoteT)
    IN  IF r = "raise" THEN TRUE ELSE r = "True"

\* which way the check went: the object's metadata and the local mtime were
\* read, the object was reported missing, or the warning of line 299 was logged
LookupClass(drv, code, mtimeOK) ==
    IF code = "200" /\ mtimeOK THEN "present"
    ELSE IF code = NotFoundCode(drv) THEN "not_found"
    ELSE "check_failed"

----------------------------------------------------------------------------
(* upload_file, lines 255-272 *)

\* "ok", or "raise": the path is gone, or the backend call failed
upload_file(pathExists, fault) ==
    IF ~pathExists THEN "raise"
    ELSE IF fault = "none" THEN "ok"
    ELSE "raise"

----------------------------------------------------------------------------
(* incremental_upload, lines 303-333 *)

\* variant: a missing local_path raises
incremental_upload_entry_raise(exists) == IF exists THEN "walk" ELSE "raise"

\* lines 307-309: a missing local_path is logged and the call returns
incremental_upload_entry(exists) == IF exists THEN "walk" ELSE "return"

\* variant: no except around the upload
LoopBody_no_except(need, upRes) ==
    IF ~need THEN "skipped"
    ELSE IF upRes = "ok" THEN "uploaded"
    ELSE "abort"

\* variant: the except branch increments skip_count
LoopBody_error_as_skip(need, upRes) ==
    IF ~need THEN "skipped"
    ELSE IF upRes = "ok" THEN "uploaded"
    ELSE "skipped"

\* lines 321-331: the counter one file lands in ("abort": an exception would
\* leave the loop)
LoopBody(need, upRes) ==
    IF ~need THEN "skipped"
    ELSE IF upRes = "ok" THEN "uploaded"
    ELSE "errored"

----------------------------------------------------------------------------
(* get_s3_client, lines 132-203, and ensure_bucket_exists, lines 216-252 *)

\* "ok", or what the raised exception reports
get_s3_client(drv, exists, fault) ==
    IF drv = "aws"
    THEN LET code == HeadBucketCode(exists, fault)
         IN  IF code = "200" THEN "ok"
             ELSE IF code = "403" THEN "access_denied"
             ELSE IF code = "404" THEN "bucket_not_found"
             ELSE "connection_failed"
    ELSE IF fault = "none" THEN "ok" ELSE "connection_failed"

\* variant: backend failures are logged, not raised
ensure_bucket_exists_swallow(drv, exists, headFault, createFault) ==
    [raised |-> FALSE,
     created |-> headFault = "none" /\ ~exists /\ createFault = "none"]

\* whether the call raises, and whether it created the bucket
ensure_bucket_exists(drv, exists, headFault, createFault) ==
    IF drv = "aws"
    THEN LET code == HeadBucketCode(exists, headFault)
         IN  IF code = "200" THEN [raised |-> FALSE, created |-> FALSE]
             ELSE IF code = "404"
                  THEN IF createFault = "none"
                       THEN [raised |-> FALSE, created |-> TRUE]
                       ELSE [raised |-> TRUE, created |-> FALSE]
             ELSE [raised |-> TRUE, created |-> FALSE]
    ELSE IF headFault # "none" THEN [raised |-> TRUE, created |-> FALSE]
         ELSE IF exists THEN [raised |-> FALSE, created |-> FALSE]
         ELSE IF createFault = "none" THEN [raised |-> FALSE, created |-> TRUE]
         ELSE [raised |-> TRUE, created |-> FALSE]

\* the backend call of ensure_bucket_exists that failed, if one did
EnsureFault(exists, headFault, createFault) ==
    IF headFault # "none" THEN "head"
    ELSE IF ~exists /\ createFault # "none" THEN "create"
    ELSE "none"

----------------------------------------------------------------------------
(* Initial states *)

FreshWalk ==
    /\ upload_count = 0
    /\ skip_count = 0
    /\ error_count = 0
    /\ statCalls = [f \in FileNames |-> 0]
    /\ upCalls = [f \in FileNames |-> 0]
    /\ lookupKind = [f \in FileNames |-> "none"]
    /\ upResult = [f \in FileNames |-> "none"]
    /\ outcome = [f \in FileNames |-> "pending"]

NoKeys ==
    /\ host = "posix"
    /\ relA = <<>>
    /\ relB = <<>>
    /\ keyA = <<>>
    /\ keyB = <<>>

\* a run of main: the documents, when the root exists, were all written at
\* the same time; the objects of the bucket were stored no later than now
Init ==
    /\ driver \in Drivers
    /\ caller = "main"
    /\ pc = "validate"
    /\ failStage = ""
    /\ failKind = ""
    /\ bucketExists \in BOOLEAN
    /\ bucket0 = bucketExists
    /\ ensureFault = "none"
    /\ ensureReturned = FALSE
    /\ dbUploadCalls = 0
    /\ docsExists \in BOOLEAN
    /\ files = IF docsExists THEN FileNames ELSE {}
    /\ clock \in Secs
    /\ \E m \in Ticks : mtime = [f \in FileNames |-> IF docsExists THEN m ELSE 0]
    /\ remote \in [Keys -> {NoObject} \cup {Object(s) : s \in 0 .. clock}]
    /\ remote0 = remote
    /\ syncState = "not_called"
    /\ todo = {}
    /\ FreshWalk
    /\ run = 1
    /\ prevErrors = 0
    /\ NoKeys

\* incremental_upload called directly, on a root of SyncFiles
InitSync ==
    /\ driver \in Drivers
    /\ caller = "direct"
    /\ pc = "sync_enter"
    /\ failStage = ""
    /\ failKind = ""
    /\ bucketExists = TRUE
    /\ bucket0 = TRUE
    /\ ensureFault = "none"
    /\ ensureReturned = TRUE
    /\ dbUploadCalls = 0
    /\ docsExists \in BOOLEAN
    /\ files = IF docsExists THEN SyncFiles ELSE {}
    /\ clock \in Secs
    /\ mtime \in [FileNames -> Ticks]
    /\ \A f \in FileNames \ files : mtime[f] = 0
    /\ remote \in [Keys -> {NoObject} \cup {Object(s) : s \in 0 .. clock}]
    /\ \A f \in FileNames \ files : remote[KeyOf(f)] = NoObject
    /\ remote0 = remote
    /\ syncState = "not_called"
    /\ todo = {}
    /\ FreshWalk
    /\ run = 1
    /\ prevErrors = 0
    /\ NoKeys

\* key derivation alone: two relative paths of files under one root
InitKey ==
    /\ driver = "aws"
    /\ caller = "direct"
    /\ pc = "derive"
    /\ failStage = ""
    /\ failKind = ""
    /\ bucketExists = TRUE
    /\ bucket0 = TRUE
    /\ ensureFault = "none"
    /\ ensureReturned = TRUE
    /\ dbUploadCalls = 0
    /\ docsExists = TRUE
    /\ files = {}
    /\ clock = 0
    /\ mtime = [f \in FileNames |-> 0]
    /\ remote = [k \in Keys |-> NoObject]
    /\ remote0 = remote
    /\ syncState = "not_called"
    /\ todo = {}
    /\ FreshWalk
    /\ run = 1
    /\ prevErrors = 0
    /\ host \in Hosts
    /\ relA \in RelPaths(host)
    /\ relB \in RelPaths(host)
    /\ keyA = <<>>
    /\ keyB = <<>>

----------------------------------------------------------------------------
(* main, lines 336-378 *)

\* except Exception of main (lines 374-378): the failure is logged, not raised
Fail(stage, kind) ==
    /\ pc' = "failed"
    /\ failStage' = stage
    /\ failKind' = kind

\* validate_config (lines 21-63): a missing setting raises ValueError
main_validate_config ==
    /\ pc = "validate"
    /\ \E valid \in BOOLEAN :
         IF valid
         THEN pc' = "backup_db" /\ UNCHANGED <<failStage, failKind>>
         ELSE Fail("validate_config", "missing_configuration")
    /\ UNCHANGED <<driver, caller, mainVars, fsVars, remote, remote0, clock,
                   syncState, walkVars, runVars, keyVars>>

\* backup_db (lines 83-129): the dump is made, or the call raises
main_backup_db ==
    /\ pc = "backup_db"
    /\ \E dumped \in BOOLEAN :
         IF dumped
         THEN pc' = "get_client" /\ UNCHANGED <<failStage, failKind>>
         ELSE Fail("backup_db", "dump_failed")
    /\ UNCHANGED <<driver, caller, mainVars, fsVars, remote, remote0, clock,
                   syncState, walkVars, runVars, keyVars>>

\* s3 = get_s3_client() (line 355)
main_get_s3_client ==
    /\ pc = "get_client"
    /\ \E fault \in Faults :
         LET r == get_s3_client(driver, bucketExists, fault)
         IN  IF r = "ok"
             THEN pc' = "ensure" /\ UNCHANGED <<failStage, failKind>>
             ELSE Fail("get_s3_client", r)
    /\ UNCHANGED <<driver, caller, mainVars, fsVars, remote, remote0, clock,
                   syncState, walkVars, runVars, keyVars>>

\* ensure_bucket_exists(s3, bucket_name) (line 359)
main_ensure_bucket_exists ==
    /\ pc = "ensure"
    /\ \E headFault \in Faults, createFault \in Faults :
         LET r == ensure_bucket_exists(driver, bucketExists, headFault, createFault)
         IN  /\ bucketExists' = (bucketExists \/ r.created)
             /\ ensureFault' = EnsureFault(bucketExists, headFault, createFault)
             /\ ensureReturned' = ~r.raised
             /\ IF r.raised
                THEN Fail("ensure_bucket_exists", "bucket_error")
                ELSE pc' = "upload_db" /\ UNCHANGED <<failStage, failKind>>
    /\ UNCHANGED <<driver, caller, bucket0, dbUploadCalls, fsVars, remote,
                   remote0, clock, syncState, walkVars, runVars, keyVars>>

\* upload_file(s3, bucket_name, db_key, db_gz) (line 364); an upload to a
\* bucket that does not exist fails
main_upload_db ==
    /\ pc = "upload_db"
    /\ dbUploadCalls' = dbUploadCalls + 1
    /\ \E pathExists \in BOOLEAN, fault \in Faults :
         LET r == upload_file(pathExists, IF bucketExists THEN fault ELSE "error")
         IN  IF r = "ok"
             THEN pc' = "sync_enter" /\ UNCHANGED <<failStage, failKind>>
             ELSE Fail("upload_file", "upload_failed")
    /\ UNCHANGED <<driver, caller, bucketExists, bucket0, ensureFault,
                   ensureReturned, fsVars, remote, remote0, clock, syncState,
                   walkVars, runVars, keyVars>>

----------------------------------------------------------------------------
(* incremental_upload, lines 303-333 *)

\* where a normal return of incremental_upload leads: main logs "Backup
\* completed successfully!" (lines 371-372)
ReturnPc == IF caller = "main" THEN "done" ELSE "returned"

\* where an exception leaving incremental_upload leads
RaisePc == IF caller = "main" THEN "failed" ELSE "raised"

ResetWalk ==
    /\ upload_count' = 0
    /\ skip_count' = 0
    /\ error_count' = 0
    /\ statCalls' = [f \in FileNames |-> 0]
    /\ upCalls' = [f \in FileNames |-> 0]
    /\ lookupKind' = [f \in FileNames |-> "none"]
    /\ upResult' = [f \in FileNames |-> "none"]
    /\ outcome' = [f \in FileNames |-> "pending"]

\* the call and lines 305-313
incremental_upload ==
    /\ pc = "sync_enter"
    /\ remote0' = remote
    /\ ResetWalk
    /\ LET r == incremental_upload_entry(docsExists)
       IN  IF r = "walk"
           THEN /\ syncState' = "walking"
                /\ todo' = files
                /\ pc' = "walk"
                /\ UNCHANGED <<failStage, failKind>>
           ELSE IF r = "return"
           THEN /\ syncState' = "noop"
                /\ todo' = {}
                /\ pc' = ReturnPc
                /\ UNCHANGED <<failStage, failKind>>
           ELSE /\ syncState' = "raised"
                /\ todo' = {}
                /\ pc' = RaisePc
                /\ failStage' = "incremental_upload"
                /\ failKind' = "missing_root"
    /\ UNCHANGED <<driver, caller, mainVars, fsVars, remote, clock, runVars,
                   keyVars>>

\* one turn of the loop of lines 315-331, for the file os.walk yields next.
\* The inputs are drawn where the code reads them: getmtime runs only after
\* the lookup answered, upload_file only when the check said so.  The store
\* stamps an uploaded object with its clock.
walk_file ==
    /\ pc = "walk"
    /\ todo # {}
    /\ \E f \in todo, statFault \in Faults :
         LET key  == KeyOf(f)
             obj  == remote[key]
             code == StatCode(driver, obj, statFault)
         IN  \E mtimeOK \in (IF code = "200" THEN BOOLEAN ELSE {TRUE}) :
               LET need == object_exists_and_modified(driver, code, mtimeOK,
                                                      mtime[f], obj.last_modified)
               IN  \E pathExists \in (IF need THEN BOOLEAN ELSE {TRUE}),
                      upFault \in (IF need THEN Faults ELSE {"none"}) :
                     LET upRes == IF need THEN upload_file(pathExists, upFault)
                                  ELSE "none"
                         cls   == LoopBody(need, upRes)
                     IN  /\ todo' = todo \ {f}
                         /\ statCalls' = [statCalls EXCEPT ![f] = @ + 1]
                         /\ lookupKind' =
                              [lookupKind EXCEPT ![f] = LookupClass(driver, code, mtimeOK)]
                         /\ upCalls' = [upCalls EXCEPT ![f] = IF need THEN @ + 1 ELSE @]
                         /\ upResult' = [upResult EXCEPT ![f] = upRes]
                         /\ remote' = IF upRes = "ok"
                                      THEN [remote EXCEPT ![key] = Object(clock)]
                                      ELSE remote
                         /\ upload_count' =
                              IF cls = "uploaded" THEN upload_count + 1 ELSE upload_count
                         /\ skip_count' =
                              IF cls = "skipped" THEN skip_count + 1 ELSE skip_count
                         /\ error_count' =
                              IF cls = "errored" THEN error_count + 1 ELSE error_count
                         /\ IF cls = "abort"
                            THEN /\ outcome' = outcome
                                 /\ syncState' = "raised"
                                 /\ pc' = RaisePc
                                 /\ failStage' = "incremental_upload"
                                 /\ failKind' = "upload_failed"
                            ELSE /\ outcome' = [outcome EXCEPT ![f] = cls]
                                 /\ UNCHANGED <<syncState, pc, failStage, failKind>>
    /\ UNCHANGED <<driver, caller, mainVars, fsVars, remote0, clock, runVars,
                   keyVars>>

\* line 333, and the return
upload_summary ==
    /\ pc = "walk"
    /\ todo = {}
    /\ syncState' = "summarised"
    /\ pc' = ReturnPc
    /\ UNCHANGED <<driver, caller, failStage, failKind, mainVars, fsVars, remote,
                   remote0, clock, walkVars, runVars, keyVars>>

\* incremental_upload is called again on the same root, bucket and prefix;
\* nothing under the root has changed, time may have passed.  The per-file
\* records are those of the current call.
rerun ==
    /\ pc = "returned"
    /\ run < MaxRuns
    /\ run' = run + 1
    /\ prevErrors' = error_count
    /\ pc' = "sync_enter"
    /\ syncState' = "not_called"
    /\ todo' = {}
    /\ ResetWalk
    /\ \E dt \in 0 .. 1 : clock + dt <= MaxSec /\ clock' = clock + dt
    /\ UNCHANGED <<driver, caller, failStage, failKind, mainVars, fsVars, remote,
                   remote0, keyVars>>

\* lines 317-319 for two files of the walk
derive_keys ==
    /\ pc = "derive"
    /\ keyA' = S3Key(host, relA)
    /\ keyB' = S3Key(host, relB)
    /\ pc' = "derived"
    /\ UNCHANGED <<driver, caller, failStage, failKind, mainVars, fsVars, remote,
                   remote0, clock, syncState, walkVars, runVars, host, relA, relB>>

----------------------------------------------------------------------------
(* Specifications *)

Next ==
    \/ main_validate_config
    \/ main_backup_db
    \/ main_get_s3_client
    \/ main_ensure_bucket_exists
    \/ main_upload_db
    \/ incremental_upload
    \/ walk_file
    \/ upload_summary

Spec == Init /\ [][Next]_vars

NextSync ==
    \/ incremental_upload
    \/ walk_file
    \/ upload_summary
    \/ rerun

SpecSync == InitSync /\ [][NextSync]_vars

NextKey == derive_keys

SpecKey == InitKey /\ [][NextKey]_vars

----------------------------------------------------------------------------
(* Properties *)

\* the files the current walk has taken from os.walk
Processed == files \ todo

RemoteAtEntry(f) == remote0[KeyOf(f)]

\* C1: when the object exists and its metadata and the local mtime were read,
\* upload_file is called for the file if and only if int(local mtime) is
\* strictly greater than int(remote last-modified); otherwise the file is
\* counted as skipped and not uploaded.  driver ranges over "aws" and "minio".
C1_UploadIffStrictlyNewer ==
    [][\A f \in FileNames :
         (lookupKind[f] = "none" /\ lookupKind'[f] = "present") =>
            LET newer == int(mtime[f]) > int(remote[KeyOf(f)].last_modified)
            IN  /\ (upCalls'[f] = upCalls[f] + 1) <=> newer
                /\ ~newer => /\ upCalls'[f] = upCalls[f]
                             /\ outcome'[f] = "skipped"
                             /\ skip_count' = skip_count + 1
                             /\ remote' = remote]_vars

\* a file later than its object by less than a second was skipped, and in the
\* same walk a file a whole second later than its object was handed to upload_file
C1_Witness ==
    \E f \in files, g \in files :
        /\ lookupKind[f] = "present"
        /\ outcome[f] = "skipped"
        /\ mtime[f] > RemoteAtEntry(f).last_modified
        /\ lookupKind[g] = "present"
        /\ upCalls[g] = 1
        /\ int(mtime[g]) > int(RemoteAtEntry(g).last_modified)

\* C2: a file whose key has no object in the bucket (the lookup answers the
\* driver's "not found") has upload_file called for it, whatever its mtime.
C2_AbsentIsUploaded ==
    [][\A f \in FileNames :
         (lookupKind[f] = "none" /\ lookupKind'[f] = "not_found") =>
            /\ ~remote[KeyOf(f)].exists
            /\ statCalls'[f] = statCalls[f] + 1
            /\ upCalls'[f] = upCalls[f] + 1
            /\ outcome'[f] \in {"uploaded", "errored"}]_vars

\* a file with the oldest possible mtime and no object was uploaded
C2_Witness ==
    \E f \in files :
        /\ lookupKind[f] = "not_found"
        /\ mtime[f] = 0
        /\ upCalls[f] = 1
        /\ outcome[f] = "uploaded"

\* C3: when the lookup fails otherwise than by "not found" (a backend error, or
\* getmtime raising), the file is still passed to upload_file, is never
\* counted as skipped, and is counted as an error only if upload_file raised.
C3_CheckFailedIsUploaded ==
    [][\A f \in FileNames :
         (lookupKind[f] = "none" /\ lookupKind'[f] = "check_failed") =>
            /\ upCalls'[f] = upCalls[f] + 1
            /\ outcome'[f] # "skipped"
            /\ skip_count' = skip_count
            /\ error_count' =
                 error_count + (IF upResult'[f] = "raise" THEN 1 ELSE 0)
            /\ upload_count' =
                 upload_count + (IF upResult'[f] = "ok" THEN 1 ELSE 0)]_vars

\* a file that a successful check would have skipped was uploaded because the
\* check failed
C3_Witness ==
    \E f \in files :
        /\ lookupKind[f] = "check_failed"
        /\ RemoteAtEntry(f).exists
        /\ int(mtime[f]) <= int(RemoteAtEntry(f).last_modified)
        /\ upCalls[f] = 1
        /\ outcome[f] = "uploaded"
        /\ error_count = 0

\* C4: a failing upload_file never stops the walk and no exception leaves
\* incremental_upload; error_count is the number of files whose upload_file
\* call raised, upload_count the number whose call succeeded; when the summary
\* is logged every file has been checked, and attempted if it was selected.
C4_FailureDoesNotStopWalk ==
    /\ error_count = Cardinality({f \in FileNames : upResult[f] = "raise"})
    /\ upload_count = Cardinality({f \in FileNames : upResult[f] = "ok"})
    /\ syncState # "raised"
    /\ failStage # "incremental_upload"
    /\ pc # "raised"
    /\ syncState = "walking" => pc = "walk"
    /\ syncState = "summarised" =>
         \A f \in files :
            /\ statCalls[f] = 1
            /\ outcome[f] # "pending"
            /\ outcome[f] # "skipped" => upCalls[f] = 1

\* both files of the root failed to upload: the second was attempted after
\* the first had failed, and the summary was reached
C4_Witness ==
    /\ syncState = "summarised"
    /\ Cardinality(files) = 2
    /\ error_count = 2
    /\ \A f \in files : upCalls[f] = 1 /\ upResult[f] = "raise"

\* C5: in a second call in succession, with nothing changed under the root,
\* upload_file is not called.  Stated for the most favourable case: the first
\* call counted no error and no lookup of the second call fails.
C5_SecondRunUploadsNothing ==
    (run > 1 /\ prevErrors = 0 /\ \A f \in FileNames : lookupKind[f] # "check_failed")
        => \A f \in FileNames : upCalls[f] = 0

\* C6: distinct relative paths under one root derive distinct keys, on either
\* host, and sub/dir/file.txt under "media/" derives media/sub/dir/file.txt.
C6_KeyDerivationInjective ==
    /\ (pc = "derived" /\ relA # relB) => keyA # keyB
    /\ S3Key("posix", <<"sub", "/", "dir", "/", "file.txt">>)
         = <<"media", "/", "sub", "/", "dir", "/", "file.txt">>
    /\ S3Key("nt", <<"sub", "\\", "dir", "\\", "file.txt">>)
         = <<"media", "/", "sub", "/", "dir", "/", "file.txt">>

\* a backend failure met by the run's bucket calls
BucketFaultMet ==
    \/ ensureFault # "none"
    \/ failKind \in {"access_denied", "connection_failed"}

\* C7: a run that starts with the bucket absent, whose dump succeeded and whose
\* bucket calls met no backend failure (credentials valid, creation allowed),
\* ends with the bucket created and the database upload attempted.
C7_AbsentBucketIsCreated ==
    (/\ pc \in {"failed", "done"}
     /\ ~bucket0
     /\ failStage \notin {"validate_config", "backup_db"}
     /\ ~BucketFaultMet)
        => (bucketExists /\ ensureReturned /\ dbUploadCalls >= 1)

AnyUploadCall == dbUploadCalls > 0 \/ \E f \in FileNames : upCalls[f] > 0

\* C8: when a backend call of ensure_bucket_exists fails, the failure is raised
\* to main and no upload_file call is made in that run; and no upload_file
\* call is made before ensure_bucket_exists has returned normally.
C8_EnsureFailureIsFatal ==
    /\ ensureFault # "none" =>
         /\ pc = "failed"
         /\ failStage = "ensure_bucket_exists"
         /\ ~ensureReturned
         /\ ~AnyUploadCall
    /\ AnyUploadCall => (ensureReturned /\ ensureFault = "none" /\ bucketExists)

\* the bucket was absent, its creation failed, and the run stopped there
C8_Witness ==
    /\ ensureFault = "create"
    /\ ~bucket0
    /\ ~bucketExists
    /\ pc = "failed"
    /\ failStage = "ensure_bucket_exists"

\* C9: called on a root that does not exist, incremental_upload returns
\* normally, looks nothing up, uploads nothing and leaves the bucket as it
\* was; the run of main ends as a completed backup.
C9_MissingRootIsNoOp ==
    (~docsExists /\ syncState # "not_called") =>
        /\ syncState = "noop"
        /\ pc = "done"
        /\ failStage = ""
        /\ remote = remote0
        /\ upload_count = 0 /\ skip_count = 0 /\ error_count = 0
        /\ \A f \in FileNames : statCalls[f] = 0 /\ upCalls[f] = 0

\* the root is missing, the bucket holds objects, and the backup completed
C9_Witness ==
    /\ ~docsExists
    /\ syncState = "noop"
    /\ pc = "done"
    /\ dbUploadCalls = 1
    /\ \E k \in Keys : remote[k].exists

\* a root with a new file, a file whose object has an equal timestamp (in
\* whole seconds) and a file modified after its object was stored
ScenarioRoot ==
    \E a \in files, b \in files, c \in files :
        /\ a # b /\ b # c /\ a # c
        /\ ~RemoteAtEntry(a).exists
        /\ RemoteAtEntry(b).exists
        /\ int(mtime[b]) = int(RemoteAtEntry(b).last_modified)
        /\ RemoteAtEntry(c).exists
        /\ int(mtime[c]) > int(RemoteAtEntry(c).last_modified)

NoFailures ==
    \A f \in FileNames : lookupKind[f] # "check_failed" /\ upResult[f] # "raise"

\* C10: every file is visited once and lands in exactly one counter: the three
\* counters add up to the number of files processed so far (all files at the
\* summary), a file gets at most one lookup and at most one upload_file call,
\* a skipped file had no upload_file call; the scenario root, with no
\* failures, ends with uploaded 2, skipped 1, errored 0.
C10_Accounting ==
    /\ syncState \in {"walking", "summarised"} =>
         /\ upload_count + skip_count + error_count = Cardinality(Processed)
         /\ upload_count = Cardinality({f \in files : outcome[f] = "uploaded"})
         /\ skip_count = Cardinality({f \in files : outcome[f] = "skipped"})
         /\ error_count = Cardinality({f \in files : outcome[f] = "errored"})
         /\ \A f \in files : (outcome[f] # "pending") <=> (f \in Processed)
         /\ \A f \in files : statCalls[f] = (IF f \in Processed THEN 1 ELSE 0)
    /\ syncState = "summarised" =>
         upload_count + skip_count + error_count = Cardinality(files)
    /\ \A f \in FileNames :
         /\ statCalls[f] <= 1
         /\ upCalls[f] <= 1
         /\ outcome[f] = "skipped" => upCalls[f] = 0
    /\ (syncState = "summarised" /\ ScenarioRoot /\ NoFailures) =>
         (upload_count = 2 /\ skip_count = 1 /\ error_count = 0)

\* the scenario root was walked to the summary without a failure
C10_Witness ==
    /\ syncState = "summarised"
    /\ ScenarioRoot
    /\ NoFailures
    /\ upload_count = 2 /\ skip_count = 1 /\ error_count = 0

====
